---- MODULE Spec2Model ----
(***************************************************************************)
(* A model of generate_docs.py (TACDocGenerator).  Text is modelled at the *)
(* character level: a string is a sequence of one-character strings, so    *)
(* that trimming, prefix tests, substring tests, slicing and the regular   *)
(* expressions of the source are computed the way the source computes      *)
(* them.  None is <<>> and a present value s is <<s>> (see Some).          *)
(***************************************************************************)
EXTENDS Integers, Sequences, FiniteSets, TLC

(* ------------------------------------------------------------------ *)
(* Characters and Python's str methods                                 *)
(* ------------------------------------------------------------------ *)

\* \s of the re module and the characters str.strip() removes
IsSpace(c) == c \in {" ", "\t", "\n"}

\* [ \t] of func_pattern
IsBlank(c) == c \in {" ", "\t"}

\* \w of the re module: letters, digits and the underscore
IsWord(c) ==
    c \in {"a","b","c","d","e","f","g","h","i","j","k","l","m","n","o","p","q",
           "r","s","t","u","v","w","x","y","z",
           "A","B","C","D","E","F","G","H","I","J","K","L","M","N","O","P","Q",
           "R","S","T","U","V","W","X","Y","Z",
           "0","1","2","3","4","5","6","7","8","9","_"}

\* str.lower() on the letters of the keyword the IGNORECASE pattern reads
Lower(c) ==
    CASE c = "V" -> "v" [] c = "E" -> "e" [] c = "R" -> "r" [] c = "S" -> "s"
      [] c = "I" -> "i" [] c = "O" -> "o" [] c = "N" -> "n" [] OTHER -> c

\* Optional values: None and a present value
None == <<>>
Some(s) == <<s>>
IsNone(v) == v = <<>>
\* Python truthiness of an optional string: None and '' are falsy
Truthy(v) == v # <<>> /\ v[1] # <<>>

\* s[i:] with a 0-based start
From(s, i) == SubSeq(s, i + 1, Len(s))

\* s.startswith(p) tested at 1-based position i
StartsAt(s, p, i) ==
    /\ i >= 1
    /\ i + Len(p) - 1 <= Len(s)
    /\ \A k \in 1..Len(p) : s[i + k - 1] = p[k]

StartsWith(s, p) == StartsAt(s, p, 1)

\* 1-based position of the first occurrence of p in s at or after i, 0 if none
RECURSIVE Find(_, _, _)
Find(s, p, i) ==
    IF i + Len(p) - 1 > Len(s) THEN 0
    ELSE IF StartsAt(s, p, i) THEN i
    ELSE Find(s, p, i + 1)

\* p in s
Contains(s, p) == Find(s, p, 1) # 0

\* first position at or after i whose character is not in the class, Len(s)+1 at the end
RECURSIVE SkipSpace(_, _)
SkipSpace(s, i) ==
    IF i <= Len(s) /\ IsSpace(s[i]) THEN SkipSpace(s, i + 1) ELSE i

RECURSIVE SkipBlank(_, _)
SkipBlank(s, i) ==
    IF i <= Len(s) /\ IsBlank(s[i]) THEN SkipBlank(s, i + 1) ELSE i

RECURSIVE SkipWord(_, _)
SkipWord(s, i) ==
    IF i <= Len(s) /\ IsWord(s[i]) THEN SkipWord(s, i + 1) ELSE i

RECURSIVE SkipNonSpace(_, _)
SkipNonSpace(s, i) ==
    IF i <= Len(s) /\ ~IsSpace(s[i]) THEN SkipNonSpace(s, i + 1) ELSE i

\* position of the next "\n" at or after i, Len(s)+1 if none
RECURSIVE LineEnd(_, _)
LineEnd(s, i) ==
    IF i <= Len(s) /\ s[i] # "\n" THEN LineEnd(s, i + 1) ELSE i

\* last position at or before i whose character is not whitespace, 0 if none
RECURSIVE LastNonSpace(_, _)
LastNonSpace(s, i) ==
    IF i >= 1 /\ IsSpace(s[i]) THEN LastNonSpace(s, i - 1) ELSE i

\* str.strip()
Strip(s) == SubSeq(s, SkipSpace(s, 1), LastNonSpace(s, Len(s)))

\* str.split(c) on a one-character separator
RECURSIVE SplitFrom(_, _, _)
SplitFrom(s, c, i) ==
    LET e == Find(s, <<c>>, i)
    IN IF e = 0 THEN << SubSeq(s, i, Len(s)) >>
       ELSE << SubSeq(s, i, e - 1) >> \o SplitFrom(s, c, e + 1)

Split(s, c) == SplitFrom(s, c, 1)

\* sep.join(parts)
RECURSIVE Join(_, _)
Join(parts, sep) ==
    IF parts = <<>> THEN <<>>
    ELSE IF Len(parts) = 1 THEN parts[1]
    ELSE parts[1] \o sep \o Join(Tail(parts), sep)

\* str.replace(old, new): every non-overlapping occurrence, left to right
RECURSIVE ReplaceFrom(_, _, _, _)
ReplaceFrom(s, old, new, i) ==
    LET e == Find(s, old, i)
    IN IF e = 0 THEN SubSeq(s, i, Len(s))
       ELSE SubSeq(s, i, e - 1) \o new \o ReplaceFrom(s, old, new, e + Len(old))

Replace(s, old, new) == ReplaceFrom(s, old, new, 1)

\* s[:n].count('\n') for the first n characters of s
RECURSIVE CountNewlines(_, _)
CountNewlines(s, n) ==
    IF n <= 0 THEN 0
    ELSE (IF s[n] = "\n" THEN 1 ELSE 0) + CountNewlines(s, n - 1)

(* ------------------------------------------------------------------ *)
(* parse_file: module metadata                                         *)
(* ------------------------------------------------------------------ *)

\* re.search(r'--\[\[(.*?)\]\]', content, re.DOTALL): group 1, or None
BlockMatch(content) ==
    LET open == Find(content, <<"-","-","[","[">>, 1)
        close == IF open = 0 THEN 0 ELSE Find(content, <<"]","]">>, open + 4)
    IN IF open = 0 \/ close = 0 THEN None
       ELSE Some(SubSeq(content, open + 4, close - 1))

\* For the tag ending just before position a: the start of group 1 of
\* r'@tag\s+([^\n]+)', 0 if the pattern fails there.  \s+ is greedy and gives
\* back characters until one that is not a newline follows it.
RECURSIVE TagGroupStart(_, _, _)
TagGroupStart(s, a, j) ==
    IF j <= a THEN 0
    ELSE IF j <= Len(s) /\ s[j] # "\n" THEN j
    ELSE TagGroupStart(s, a, j - 1)

\* re.search(r'@tag\s+([^\n]+)', block): group(1).strip(), or None.  tag
\* holds the keyword with its "@".
RECURSIVE TagSearch(_, _, _)
TagSearch(block, tag, i) ==
    LET q == Find(block, tag, i)
        a == q + Len(tag)
        g == TagGroupStart(block, a, SkipSpace(block, a))
    IN IF q = 0 THEN None
       ELSE IF g # 0 THEN Some(Strip(SubSeq(block, g, LineEnd(block, g) - 1)))
       ELSE TagSearch(block, tag, q + 1)

TagValue(block, tag) == TagSearch(block, tag, 1)

\* The loop over block.split('\n') that collects the description lines
RECURSIVE BlockDescLines(_, _)
BlockDescLines(lines, in_description) ==
    IF lines = <<>> THEN <<>>
    ELSE LET line == Strip(Head(lines))
         IN IF ~in_description /\ line # <<>> /\ ~StartsWith(line, <<"@">>)
              THEN BlockDescLines(Tail(lines), TRUE)
            ELSE IF in_description
              THEN IF StartsWith(line, <<"@">>) THEN <<>>
                   ELSE IF line # <<>>
                     THEN <<line>> \o BlockDescLines(Tail(lines), TRUE)
                   ELSE BlockDescLines(Tail(lines), TRUE)
            ELSE BlockDescLines(Tail(lines), FALSE)

BlockDescription(block) ==
    Strip(Join(BlockDescLines(Split(block, "\n"), FALSE), <<" ">>))

IsQuote(c) == c \in {"\"", "'"}

RECURSIVE SkipNonQuote(_, _)
SkipNonQuote(s, i) ==
    IF i <= Len(s) /\ ~IsQuote(s[i]) THEN SkipNonQuote(s, i + 1) ELSE i

\* the keyword of the fallback pattern, matched with re.IGNORECASE
VersionWordAt(s, i) ==
    /\ i + 6 <= Len(s)
    /\ \A k \in 1..7 : Lower(s[i + k - 1]) = <<"v","e","r","s","i","o","n">>[k]

\* re.search(r'version\s*=\s*["\']([^"\']+)["\']', content, re.IGNORECASE):
\* group 1, or None
RECURSIVE CodeVersionFrom(_, _)
CodeVersionFrom(content, i) ==
    IF i + 6 > Len(content) THEN None
    ELSE LET eq == SkipSpace(content, i + 7)
             qt == SkipSpace(content, eq + 1)
             e  == SkipNonQuote(content, qt + 1)
         IN IF /\ VersionWordAt(content, i)
               /\ eq <= Len(content) /\ content[eq] = "="
               /\ qt <= Len(content) /\ IsQuote(content[qt])
               /\ e > qt + 1
               /\ e <= Len(content)
              THEN Some(SubSeq(content, qt + 1, e - 1))
            ELSE CodeVersionFrom(content, i + 1)

CodeVersion(content) == CodeVersionFrom(content, 1)

\* The loop over content.split('\n') that collects the '---' description lines
RECURSIVE LineDescLines(_, _)
LineDescLines(lines, collected) ==
    IF lines = <<>> THEN <<>>
    ELSE LET line == Head(lines)
             cleaned == Strip(From(line, 3))
         IN IF StartsWith(line, <<"-","-","-">>)
              THEN IF StartsWith(cleaned, <<"@">>) THEN <<>>
                   ELSE IF cleaned # <<>>
                     THEN <<cleaned>> \o LineDescLines(Tail(lines), TRUE)
                   ELSE LineDescLines(Tail(lines), collected)
            ELSE IF collected THEN <<>>
            ELSE LineDescLines(Tail(lines), FALSE)

\* LineCommentDescription stopping at the first line that is no '---' line,
\* also before any text was collected
LineCommentDescriptionTop(content) ==
    Join(LineDescLines(Split(content, "\n"), TRUE), <<" ">>)

LineCommentDescription(content) ==
    Join(LineDescLines(Split(content, "\n"), FALSE), <<" ">>)

(* ------------------------------------------------------------------ *)
(* parse_file: function extraction                                     *)
(* ------------------------------------------------------------------ *)

\* [\w.:] of func_pattern
IsNameChar(c) == IsWord(c) \/ c \in {".", ":"}

RECURSIVE SkipName(_, _)
SkipName(s, i) ==
    IF i <= Len(s) /\ IsNameChar(s[i]) THEN SkipName(s, i + 1) ELSE i

\* One repetition of (?:[ \t]*---?.*?\n) at i: the position after its "\n",
\* 0 if it does not match
CommentLineEnd(s, i) ==
    LET k == SkipBlank(s, i)
        e == LineEnd(s, k)
    IN IF StartsAt(s, <<"-","-">>, k) /\ e <= Len(s) THEN e + 1 ELSE 0

\* ((?:[ \t]*---?.*?\n)+) continued greedily from i
RECURSIVE CommentRunEnd(_, _)
CommentRunEnd(s, i) ==
    LET e == CommentLineEnd(s, i)
    IN IF e = 0 THEN i ELSE CommentRunEnd(s, e)

\* (?:[ \t]*\n)* continued greedily from i
RECURSIVE BlankRunEnd(_, _)
BlankRunEnd(s, i) ==
    LET k == SkipBlank(s, i)
    IN IF k <= Len(s) /\ s[k] = "\n" THEN BlankRunEnd(s, k + 1) ELSE i

NoMatch == [ok |-> FALSE, start |-> 0, stop |-> 0, def_pos |-> 0,
            doc_block |-> <<>>, is_local |-> FALSE, func_name |-> <<>>]

\* func_pattern tried at position p: the match (its start, the position after
\* its last character, the position of the function keyword and groups 1 to
\* 3), or NoMatch
FuncMatchAt(s, p) ==
    LET d  == CommentRunEnd(s, p)
        j  == SkipBlank(s, BlankRunEnd(s, d))
        l  == SkipSpace(s, j + 5)
        is_local == StartsAt(s, <<"l","o","c","a","l">>, j) /\ l > j + 5
        f  == IF is_local THEN l ELSE j
        n  == SkipSpace(s, f + 8)
        ne == SkipName(s, n)
        po == SkipSpace(s, ne)
        pc_ == Find(s, <<")">>, po + 1)
    IN IF /\ d > p
          /\ StartsAt(s, <<"f","u","n","c","t","i","o","n">>, f)
          /\ n > f + 8
          /\ ne > n
          /\ po <= Len(s) /\ s[po] = "("
          /\ pc_ # 0 /\ pc_ < LineEnd(s, po)
         THEN [ok |-> TRUE, start |-> p, stop |-> pc_ + 1, def_pos |-> f,
               doc_block |-> SubSeq(s, p, d - 1),
               is_local |-> is_local, func_name |-> SubSeq(s, n, ne - 1)]
       ELSE NoMatch

\* re.finditer(func_pattern, content): the matches, leftmost first, each search
\* resuming where the previous match ended
RECURSIVE FuncMatches(_, _)
FuncMatches(s, p) ==
    IF p > Len(s) THEN <<>>
    ELSE LET m == FuncMatchAt(s, p)
         IN IF m.ok THEN <<m>> \o FuncMatches(s, m.stop)
            ELSE FuncMatches(s, p + 1)

\* SkipLocal without the test of the name: every local function is skipped
SkipEveryLocal(is_local, func_name) == is_local

\* Exclusion of local functions without a dot or colon in the name
SkipLocal(is_local, func_name) ==
    is_local /\ ~Contains(func_name, <<".">>) /\ ~Contains(func_name, <<":">>)

\* SkipUnderscore without the test of the position: any underscore skips
SkipAnyUnderscore(func_name) == Contains(func_name, <<"_">>)

\* Exclusion of functions with an underscore-prefixed name or name segment
SkipUnderscore(func_name) ==
    /\ Contains(func_name, <<"_">>)
    /\ (StartsWith(func_name, <<"_">>) \/ Contains(func_name, <<".","_">>))

\* content[:match.start()].count('\n') + 1
LineNum(content, m) == CountNewlines(content, m.start - 1) + 1

\* The comment marker removed from one stripped line of the doc block; None
\* for a line that is no comment
DocLine(raw) ==
    LET line == Strip(raw)
    IN IF StartsWith(line, <<"-","-","-">>) THEN Some(Strip(From(line, 3)))
       ELSE IF StartsWith(line, <<"-","-">>) THEN Some(Strip(From(line, 2)))
       ELSE None

\* re.match(r'@param\s+(\w+\??)\s+(\S+)(?:\s+(.+))?', line): the parameter
\* record in a one-element sequence, <<>> if the pattern fails
ParamMatch(line) ==
    LET n  == SkipSpace(line, 7)
        w  == SkipWord(line, n)
        ne == IF w <= Len(line) /\ line[w] = "?" THEN w + 1 ELSE w
        t  == SkipSpace(line, ne)
        te == SkipNonSpace(line, t)
        ds == SkipSpace(line, te)
    IN IF /\ StartsWith(line, <<"@","p","a","r","a","m">>)
          /\ n > 7 /\ w > n /\ t > ne /\ te > t
         THEN << [name |-> SubSeq(line, n, ne - 1),
                  type |-> SubSeq(line, t, te - 1),
                  description |-> IF ds > te /\ ds <= Len(line)
                                    THEN SubSeq(line, ds, Len(line))
                                    ELSE <<>>] >>
       ELSE <<>>

\* line.replace('@return', '').strip()
ReturnPayload(line) == Strip(Replace(line, <<"@","r","e","t","u","r","n">>, <<>>))

\* The loop over doc_block.split('\n'): params, returns and desc_lines
RECURSIVE ParseDoc(_, _)
ParseDoc(raws, acc) ==
    IF raws = <<>> THEN acc
    ELSE LET dl == DocLine(Head(raws))
             line == dl[1]
         IN IF IsNone(dl) THEN ParseDoc(Tail(raws), acc)
            ELSE IF StartsWith(line, <<"@","p","a","r","a","m">>)
              THEN ParseDoc(Tail(raws),
                       [acc EXCEPT !.params = @ \o ParamMatch(line)])
            ELSE IF StartsWith(line, <<"@","r","e","t","u","r","n">>)
              THEN ParseDoc(Tail(raws),
                       [acc EXCEPT !.returns = ReturnPayload(line)])
            ELSE IF ~StartsWith(line, <<"@">>)
              THEN ParseDoc(Tail(raws),
                       [acc EXCEPT !.desc_lines = Append(@, line)])
            ELSE ParseDoc(Tail(raws), acc)

\* func_info of one match
FuncInfo(content, m) ==
    LET doc == ParseDoc(Split(m.doc_block, "\n"),
                        [params |-> <<>>, returns |-> <<>>, desc_lines |-> <<>>])
    IN [name |-> m.func_name,
        params |-> doc.params,
        returns |-> doc.returns,
        description |-> Join(doc.desc_lines, <<" ">>),
        line |-> LineNum(content, m)]

\* Documented without the test: every match is kept
DocumentedAlways(f) == TRUE

\* if func_info['description'] or func_info['params'] or func_info['returns']
Documented(f) == f.description # <<>> \/ f.params # <<>> \/ f.returns # <<>>

\* The loop over the matches: the retained functions in source order
RECURSIVE Functions(_, _)
Functions(content, ms) ==
    IF ms = <<>> THEN <<>>
    ELSE LET m == Head(ms)
             f == FuncInfo(content, m)
         IN IF SkipLocal(m.is_local, m.func_name) THEN Functions(content, Tail(ms))
            ELSE IF SkipUnderscore(m.func_name) THEN Functions(content, Tail(ms))
            ELSE IF Documented(f) THEN <<f>> \o Functions(content, Tail(ms))
            ELSE Functions(content, Tail(ms))

(* ------------------------------------------------------------------ *)
(* parse_file                                                          *)
(* ------------------------------------------------------------------ *)

\* str(filepath.relative_to(input_dir)).replace('.lua', '').replace('/', '.')
ModuleName(path) == Replace(Replace(path, <<".","l","u","a">>, <<>>), <<"/">>, <<".">>)

\* module['version'] after the block comment
TaggedVersion(content) ==
    LET bm == BlockMatch(content)
    IN IF IsNone(bm) THEN None ELSE TagValue(bm[1], <<"@","v","e","r","s","i","o","n">>)

\* if not module['version']: the pattern on the code is searched
FallbackConsulted(content) == ~Truthy(TaggedVersion(content))

\* version after the block comment and the fallback on the code
ModuleVersion(content) ==
    LET tagged == TaggedVersion(content)
        cv == CodeVersion(content)
    IN IF ~FallbackConsulted(content) THEN tagged
       ELSE IF IsNone(cv) THEN tagged ELSE cv

\* description after the block comment and the fallback on '---' comments
ModuleDescription(content) ==
    LET bm == BlockMatch(content)
        fromBlock == IF IsNone(bm) THEN <<>> ELSE BlockDescription(bm[1])
    IN IF fromBlock # <<>> THEN fromBlock
       ELSE LineCommentDescription(content)

\* The module record parse_file returns (its examples, which no other field
\* depends on, are left out)
ParseFile(path, content) ==
    LET bm == BlockMatch(content)
    IN [name |-> ModuleName(path),
        path |-> path,
        description |-> ModuleDescription(content),
        functions |-> Functions(content, FuncMatches(content, 1)),
        version |-> ModuleVersion(content),
        author |-> IF IsNone(bm) THEN None ELSE TagValue(bm[1], <<"@","a","u","t","h","o","r">>),
        license |-> IF IsNone(bm) THEN None ELSE TagValue(bm[1], <<"@","l","i","c","e","n","s","e">>)]

(* ------------------------------------------------------------------ *)
(* Source texts                                                        *)
(* ------------------------------------------------------------------ *)

MaxBlockLines == 3
MaxDocLines == 2
MaxTopLines == 3

\* every sequence over S of length at most n
SeqsUpTo(S, n) == UNION {[1..k -> S] : k \in 0..n}

\* the lines, each ended by its newline
RECURSIVE Lines(_)
Lines(ls) == IF ls = <<>> THEN <<>> ELSE Head(ls) \o <<"\n">> \o Lines(Tail(ls))

\* lines of a leading block comment
BlockVocab ==
    { <<"D","o","o","r"," ","c","o","n","t","r","o","l">>, <<"O","p","e","n","s"," ","d","o","o","r","s",".">>, <<"@","v","e","r","s","i","o","n"," "," ","1",".","0"," ">>, <<"@","v","e","r","s","i","o","n">>,
      <<"@","a","u","t","h","o","r"," ","B","o","b">>, <<"@","l","i","c","e","n","s","e"," ","M","I","T">> }

\* what follows the block comment
BlockTails ==
    { <<"M",".","V","E","R","S","I","O","N"," ","="," ","'","2",".","0","'","\n">>, <<"-","-","-"," ","T","o","p"," ","t","e","x","t","\n">> }

\* files that open with a block comment
BlockFiles ==
    { <<"-","-","[","[","\n">> \o Lines(ls) \o <<"]","]","\n">> \o t :
        ls \in SeqsUpTo(BlockVocab, MaxBlockLines), t \in BlockTails }

\* comment lines of a documentation block
DocVocab ==
    { <<"-","-","-"," ","O","p","e","n","s"," ","i","t">>, <<"-","-","-">>, <<"-","-","-"," ","@","p","a","r","a","m"," ","i","d","?"," ","T"," ","t","h","e"," ","i","d">>, <<"-","-","-"," ","@","p","a","r","a","m"," ","x">>,
      <<"-","-","-"," ","@","r","e","t","u","r","n"," ","A">>, <<"-","-","-"," ","@","r","e","t","u","r","n"," ","B"," ","@","r","e","t","u","r","n">>, <<"-","-","-"," ","@","s","e","e"," ","y">> }

\* function definitions
FuncVocab ==
    { <<"f","u","n","c","t","i","o","n"," ","M",".","o","p","e","n","(","i","d",")">>, <<"l","o","c","a","l"," ","f","u","n","c","t","i","o","n"," ","h","e","l","p","e","r","(","x",")">>,
      <<"l","o","c","a","l"," ","f","u","n","c","t","i","o","n"," ","M",".","h","(",")">>, <<"f","u","n","c","t","i","o","n"," ","_","g","(",")">>, <<"f","u","n","c","t","i","o","n"," ","M",".","_","i","n","t","e","r","n","a","l","(",")">>,
      <<"f","u","n","c","t","i","o","n"," ","f","o","o",".","b","a","r","_","b","a","z","(",")">>, <<"f","u","n","c","t","i","o","n"," ","o","b","j",":","_","m","(",")">> }

\* what precedes the documentation block and what separates it from the
\* definition: nothing, or a line of code with a trailing comment before it
\* and a blank line after it
FuncShapes ==
    { [head |-> <<>>, gap |-> <<>>],
      [head |-> <<"l","o","c","a","l"," ","M"," ","="," ","{","}"," ","-","-"," ","m","o","d","\n">>, gap |-> <<"\n">>] }

\* files with one documented definition
FuncFiles ==
    { sh.head \o Lines(ds) \o sh.gap \o f \o <<"\n","e","n","d","\n">> :
        sh \in FuncShapes,
        ds \in SeqsUpTo(DocVocab, MaxDocLines) \ {<<>>},
        f \in FuncVocab }

\* lines of files without a block comment
TopVocab ==
    { <<"-","-","-"," ","I","n","t","r","o">>, <<"-","-","-">>, <<"-","-","-","@","u","s","a","g","e">>, <<"l","o","c","a","l"," ","x"," ","="," ","1">>, <<>>, <<"-","-"," ","n","o","t","e">>,
      <<"f","u","n","c","t","i","o","n"," ","M",".","f","(",")">> }

TopFiles == { Lines(ls) : ls \in SeqsUpTo(TopVocab, MaxTopLines) }

Contents == BlockFiles \cup FuncFiles \cup TopFiles

\* the path parse_file is given in ParseSpec
ParsePath == <<"t","a","c","/","c","o","r","e","/","d","o","o","r",".","l","u","a">>

(* ------------------------------------------------------------------ *)
(* Ordering of strings and paths                                       *)
(* ------------------------------------------------------------------ *)

\* the characters of paths and names in code point order
CodePoints ==
    <<"-",".","/","0","1","2","3","4","5","6","7","8","9","A","B","C","D","E","F","G","H","I","J","K","L","M","N","O","P","Q","R","S","T","U","V","W","X","Y","Z","_","a","b","c","d","e","f","g","h","i","j","k","l","m","n","o","p","q","r","s","t","u","v","w","x","y","z">>

Ord(c) == CHOOSE k \in 1..Len(CodePoints) : CodePoints[k] = c

\* a < b for str
RECURSIVE StrLess(_, _)
StrLess(a, b) ==
    IF b = <<>> THEN FALSE
    ELSE IF a = <<>> THEN TRUE
    ELSE IF Head(a) = Head(b) THEN StrLess(Tail(a), Tail(b))
    ELSE Ord(Head(a)) < Ord(Head(b))

\* a < b for Path objects: the path components are compared one by one
RECURSIVE PartsLess(_, _)
PartsLess(a, b) ==
    IF b = <<>> THEN FALSE
    ELSE IF a = <<>> THEN TRUE
    ELSE IF Head(a) = Head(b) THEN PartsLess(Tail(a), Tail(b))
    ELSE StrLess(Head(a), Head(b))

PathLess(a, b) == PartsLess(Split(a, "/"), Split(b, "/"))

\* the paths of a set in descending order
RECURSIVE DescendingPaths(_)
DescendingPaths(S) ==
    IF S = {} THEN <<>>
    ELSE LET x == CHOOSE y \in S : \A z \in S \ {y} : PathLess(z, y)
         IN <<x>> \o DescendingPaths(S \ {x})

\* sorted(lua_files): the paths of a set in ascending order
RECURSIVE SortedPaths(_)
SortedPaths(S) ==
    IF S = {} THEN <<>>
    ELSE LET x == CHOOSE y \in S : \A z \in S \ {y} : PathLess(y, z)
         IN <<x>> \o SortedPaths(S \ {x})

\* sorted(extension_parents.items(), key=lambda x: x[0]): the keys in
\* ascending order
RECURSIVE SortedNames(_)
SortedNames(S) ==
    IF S = {} THEN <<>>
    ELSE LET x == CHOOSE y \in S : \A z \in S \ {y} : StrLess(y, z)
         IN <<x>> \o SortedNames(S \ {x})

\* m placed into the sorted sequence s after every module whose name is not
\* greater than its name
RECURSIVE InsertByName(_, _)
InsertByName(m, s) ==
    IF s = <<>> THEN <<m>>
    ELSE IF StrLess(m.name, Head(s).name) THEN <<m>> \o s
    ELSE <<Head(s)>> \o InsertByName(m, Tail(s))

\* the children left in the order of the module list
UnsortedByName(s) == s

\* sorted(children, key=lambda x: x['name']), stable
RECURSIVE SortedByName(_)
SortedByName(s) ==
    IF s = <<>> THEN <<>>
    ELSE InsertByName(s[Len(s)], SortedByName(SubSeq(s, 1, Len(s) - 1)))

\* the last element of a non-empty sequence: the value a dictionary keeps for a
\* key assigned several times
LastElem(s) == s[Len(s)]

(* ------------------------------------------------------------------ *)
(* generate_html_index: the grouping of the modules                    *)
(* ------------------------------------------------------------------ *)

InCore(m) ==
    StartsWith(m.path, <<"t","a","c","/","c","o","r","e","/">>) /\ ~Contains(From(m.path, 9), <<"/">>)
InLib(m) == StartsWith(m.path, <<"t","a","c","/","l","i","b","/">>)
InCommands(m) == StartsWith(m.path, <<"t","a","c","/","c","o","m","m","a","n","d","s","/">>)
InExtensions(m) == StartsWith(m.path, <<"t","a","c","/","e","x","t","e","n","s","i","o","n","s","/">>)

\* m['path'][15:].split('/')
ExtParts(m) == Split(From(m.path, 15), "/")

IsExtParent(m) == InExtensions(m) /\ Len(ExtParts(m)) = 1
IsExtChild(m) == InExtensions(m) /\ Len(ExtParts(m)) = 2

\* the extension_parents key of a top-level extension file
ExtensionName(m) == <<"t","a","c",".","e","x","t","e","n","s","i","o","n","s",".">> \o Replace(ExtParts(m)[1], <<".","l","u","a">>, <<>>)
\* the extension_children key of a submodule
ParentName(m) == <<"t","a","c",".","e","x","t","e","n","s","i","o","n","s",".">> \o ExtParts(m)[1]

\* extension_parents: a function from extension names to modules; a later
\* module of the same name replaces an earlier one
ExtensionParents(modules) ==
    LET names == {ExtensionName(modules[k]) :
                    k \in {j \in 1..Len(modules) : IsExtParent(modules[j])}}
    IN [n \in names |->
          LET Named(m) == IsExtParent(m) /\ ExtensionName(m) = n
          IN LastElem(SelectSeq(modules, Named))]

\* extension_children: a function from extension names to lists of modules
ExtensionChildren(modules) ==
    LET names == {ExtensionName(modules[k]) :
                    k \in {j \in 1..Len(modules) : IsExtParent(modules[j])}}
                 \cup
                 {ParentName(modules[k]) :
                    k \in {j \in 1..Len(modules) : IsExtChild(modules[j])}}
    IN [n \in names |->
          LET Under(m) == IsExtChild(m) /\ ParentName(m) = n
          IN SelectSeq(modules, Under)]

\* categorized, as a set: the modules that do not go to 'Other Modules'
Categorized(modules) ==
    LET parents == ExtensionParents(modules)
        children == ExtensionChildren(modules)
    IN {modules[k] : k \in {j \in 1..Len(modules) :
                               InCore(modules[j]) \/ InCommands(modules[j])}}
       \cup {parents[n] : n \in DOMAIN parents}
       \cup UNION {{children[n][k] : k \in 1..Len(children[n])} :
                     n \in DOMAIN children}

\* The entries of the index page, by section, in page order.  An entry is the
\* path of the module it links to.
HtmlIndex(modules) ==
    LET parents == ExtensionParents(modules)
        children == ExtensionChildren(modules)
        cat == Categorized(modules)
        NotCategorized(m) == m \notin cat
        Paths(ms) == [k \in 1..Len(ms) |-> ms[k].path]
        sorted_parents == SortedNames(DOMAIN parents)
    IN [core |-> Paths(SelectSeq(modules, InCore)),
        lib |-> Paths(SelectSeq(modules, InLib)),
        commands |-> Paths(SelectSeq(modules, InCommands)),
        other |-> Paths(SelectSeq(modules, NotCategorized)),
        extensions |->
          [k \in 1..Len(sorted_parents) |->
             [parent |-> parents[sorted_parents[k]].path,
              children |-> Paths(SortedByName(children[sorted_parents[k]]))]]]

(* ------------------------------------------------------------------ *)
(* generate_api_endpoints: the manifests                               *)
(* ------------------------------------------------------------------ *)

\* PurePath.stem of a file name
RECURSIVE LastDot(_, _)
LastDot(name, i) ==
    IF i < 1 THEN 0 ELSE IF name[i] = "." THEN i ELSE LastDot(name, i - 1)

Stem(name) ==
    LET d == LastDot(name, Len(name))
    IN IF d > 1 /\ d < Len(name) THEN SubSeq(name, 1, d - 1) ELSE name

\* tac_version or '0.0.0'
TacVersion(modules) ==
    LET IsInit(m) == m.name = <<"t","a","c",".","i","n","i","t">>
        hits == SelectSeq(modules, IsInit)
    IN IF hits # <<>> /\ Truthy(hits[1].version) THEN hits[1].version[1]
       ELSE <<"0",".","0",".","0">>

\* the branch of the if/elif chain a module takes
ApiCategory(m) ==
    IF StartsWith(m.path, <<"t","a","c","/","c","o","r","e","/">>) THEN "core"
    ELSE IF StartsWith(m.path, <<"t","a","c","/","l","i","b","/">>) THEN "lib"
    ELSE IF StartsWith(m.path, <<"t","a","c","/","c","o","m","m","a","n","d","s","/">>) THEN "commands"
    ELSE IF StartsWith(m.path, <<"t","a","c","/","e","x","t","e","n","s","i","o","n","s","/">>)
              /\ ~Contains(From(m.path, 15), <<"/">>) THEN "extensions"
    ELSE "none"

\* the prefix m['name'].replace removes, by category
CategoryPrefix(c) ==
    CASE c = "core" -> <<"t","a","c",".","c","o","r","e",".">>
      [] c = "lib" -> <<"t","a","c",".","l","i","b",".">>
      [] c = "commands" -> <<"t","a","c",".","c","o","m","m","a","n","d","s",".">>
      [] c = "extensions" -> <<"t","a","c",".","e","x","t","e","n","s","i","o","n","s",".">>

\* m.get('version', '0.0.0'): the key is always present, so the default is
\* never taken and a module without a version gives None
ApiEntry(m) == [version |-> m.version, path |-> m.path]

\* versions['tac'][c] after the loop over the modules: a later module of the
\* same key replaces an earlier one
CategoryEntries(modules, c) ==
    LET In(m) == ApiCategory(m) = c
        ms == SelectSeq(modules, In)
        Key(m) == Replace(m.name, CategoryPrefix(c), <<>>)
        keys == {Key(ms[k]) : k \in 1..Len(ms)}
    IN [n \in keys |->
          LET Keyed(m) == Key(m) = n
          IN ApiEntry(LastElem(SelectSeq(ms, Keyed)))]

\* commands_dir.glob('*.lua'): the names of the files directly in tac/commands
CommandFiles(paths) ==
    {From(p, 13) : p \in {q \in paths :
        /\ StartsWith(q, <<"t","a","c","/","c","o","m","m","a","n","d","s","/">>)
        /\ ~Contains(From(q, 13), <<"/">>)
        /\ Len(q) >= 17
        /\ From(q, Len(q) - 4) = <<".","l","u","a">>}}

\* the commands of the parsed modules alone, without the scan of the directory
CommandEntriesParsedOnly(modules, paths) == CategoryEntries(modules, "commands")

\* versions['tac']['commands'] after the scan of the directory
CommandEntries(modules, paths) ==
    LET parsed_entries == CategoryEntries(modules, "commands")
        files == CommandFiles(paths)
        missing == {f \in files : Stem(f) \notin DOMAIN parsed_entries}
    IN [n \in DOMAIN parsed_entries \cup {Stem(f) : f \in missing} |->
          IF n \in DOMAIN parsed_entries THEN parsed_entries[n]
          ELSE [version |-> Some(<<"0",".","0",".","0">>),
                path |-> <<"t","a","c","/","c","o","m","m","a","n","d","s","/">> \o
                         (CHOOSE f \in missing : Stem(f) = n)]]

\* the submodules list of the manifest of one top-level extension
Submodules(modules, m) ==
    LET dir == Replace(m.path, <<".","l","u","a">>, <<>>) \o <<"/">>
        Under(s) == StartsWith(s.path, dir)
        subs == SelectSeq(modules, Under)
    IN [k \in 1..Len(subs) |->
          [name |-> LET ps == Split(subs[k].name, ".") IN ps[Len(ps)],
           path |-> subs[k].path,
           version |-> subs[k].version]]

\* api/<name>.json of every top-level extension
ExtensionManifests(modules) ==
    LET In(m) == ApiCategory(m) = "extensions"
        ms == SelectSeq(modules, In)
        Key(m) == Replace(m.name, <<"t","a","c",".","e","x","t","e","n","s","i","o","n","s",".">>, <<>>)
        keys == {Key(ms[k]) : k \in 1..Len(ms)}
    IN [n \in keys |->
          LET Keyed(m) == Key(m) = n
              m == LastElem(SelectSeq(ms, Keyed))
          IN [name |-> n, version |-> m.version,
              description |-> m.description, author |-> m.author,
              main_file |-> m.path,
              submodules |-> Submodules(modules, m)]]

\* versions.json, latest.json (its version; the time stamp is left out) and the
\* manifests of the extensions.  download_url is a fixed prefix before path.
ApiEndpoints(modules, paths) ==
    [versions |->
        [version |-> TacVersion(modules),
         core |-> CategoryEntries(modules, "core"),
         lib |-> CategoryEntries(modules, "lib"),
         commands |-> CommandEntries(modules, paths),
         extensions |-> CategoryEntries(modules, "extensions")],
     latest |-> TacVersion(modules),
     manifests |-> ExtensionManifests(modules)]

(* ------------------------------------------------------------------ *)
(* The input tree of a run of generate()                               *)
(* ------------------------------------------------------------------ *)

MaxFiles == 2

\* relative paths of the .lua files a tree may hold
PathUniverse ==
    { <<"t","a","c","/","c","o","r","e","/","d","o","o","r",".","l","u","a">>, <<"t","a","c","/","c","o","r","e","/","s","u","b","/","x",".","l","u","a">>, <<"t","a","c","/","l","i","b","/","u","t","i","l",".","l","u","a">>,
      <<"t","a","c","/","c","o","m","m","a","n","d","s","/","c","a","r","d",".","l","u","a">>, <<"t","a","c","/","e","x","t","e","n","s","i","o","n","s","/","s","h","o","p",".","l","u","a">>,
      <<"t","a","c","/","e","x","t","e","n","s","i","o","n","s","/","s","h","o","p","/","u","i",".","l","u","a">>, <<"m","a","i","n",".","l","u","a">>, <<"d","a","t","a","/","d",".","l","u","a">> }

\* a text with a description and a version
DocumentedText == <<"-","-","[","[","\n","D","o","o","r","\n","O","p","e","n","s",".","\n","@","v","e","r","s","i","o","n"," ","1",".","2","\n","]","]","\n">>

\* texts of the files of a tree: a description and a version, a documented
\* function without a description or version, and nothing documented
FileTexts ==
    { DocumentedText,
      <<"-","-"," ","O","p","e","n","s"," ","i","t","\n","f","u","n","c","t","i","o","n"," ","M",".","o","p","e","n","(",")","\n">>,
      <<"x"," ","="," ","1","\n">> }

\* the trees of up to MaxFiles files with any of the texts
GeneralTrees ==
    UNION {[S -> FileTexts] :
             S \in {T \in SUBSET PathUniverse : Cardinality(T) <= MaxFiles}}

MaxExtensionFiles == 3

\* extension files: two top-level extensions, the submodules of one of them
\* and a submodule of an extension that has no top-level file
ExtensionPaths ==
    { <<"t","a","c","/","e","x","t","e","n","s","i","o","n","s","/","s","h","o","p",".","l","u","a">>, <<"t","a","c","/","e","x","t","e","n","s","i","o","n","s","/","s","h","o","p","-","x",".","l","u","a">>,
      <<"t","a","c","/","e","x","t","e","n","s","i","o","n","s","/","s","h","o","p","/","u","i",".","l","u","a">>, <<"t","a","c","/","e","x","t","e","n","s","i","o","n","s","/","s","h","o","p","/","u","i","-","x",".","l","u","a">>,
      <<"t","a","c","/","e","x","t","e","n","s","i","o","n","s","/","b","a","n","k","/","u","i",".","l","u","a">> }

\* the trees of up to MaxExtensionFiles documented extension files
ExtensionTrees ==
    {[p \in S |-> DocumentedText] :
       S \in {T \in SUBSET ExtensionPaths : Cardinality(T) <= MaxExtensionFiles}}

\* files in directories the filter of generate() looks at, files outside tac/
\* and tac/init.lua
LayoutPaths ==
    { <<"m","e","t","a","d","a","t","a","/","m",".","l","u","a">>, <<"l","a","t","e","s","t","/","x",".","l","u","a">>, <<"t","e","s","t","/","t",".","l","u","a">>, <<".","g","i","t","/","h",".","l","u","a">>,
      <<"l","i","b","/","s",".","l","u","a">>, <<"a","_","b",".","l","u","a">>, <<"a","/","b",".","l","u","a">>, <<"t","a","c","/","i","n","i","t",".","l","u","a">> }

\* the trees of up to MaxFiles documented files of LayoutPaths
LayoutTrees ==
    {[p \in S |-> DocumentedText] :
       S \in {T \in SUBSET LayoutPaths : Cardinality(T) <= MaxFiles}}

\* the files of tac/commands
CommandPaths == { <<"t","a","c","/","c","o","m","m","a","n","d","s","/","c","a","r","d",".","l","u","a">>, <<"t","a","c","/","c","o","m","m","a","n","d","s","/","c","a","r","d",".","v","2",".","l","u","a">> }

\* the trees of up to MaxFiles command files with any of the texts
CommandTrees ==
    UNION {[S -> FileTexts] :
             S \in {T \in SUBSET CommandPaths : Cardinality(T) <= MaxFiles}}

Trees == GeneralTrees \cup ExtensionTrees \cup LayoutTrees \cup CommandTrees

(* ------------------------------------------------------------------ *)
(* generate(): discovery                                               *)
(* ------------------------------------------------------------------ *)

\* the filter on rel_path
Skipped(rel_path) ==
    \/ Contains(rel_path, <<"d","a","t","a","/">>)
    \/ Contains(rel_path, <<"t","e","s","t","/">>)
    \/ Contains(rel_path, <<".","g","i","t">>)
    \/ (StartsWith(rel_path, <<"l","i","b","/">>) /\ ~StartsWith(rel_path, <<"t","a","c","/","l","i","b","/">>))

\* sorted(lua_files) after the filter
Discovered(paths) == SortedPaths({p \in paths : ~Skipped(p)})

\* Retained testing the description alone
RetainedByDescription(m) == m.description # <<>>

\* if module['description'] or module['functions']
Retained(m) == m.description # <<>> \/ m.functions # <<>>

\* module['name'].replace('.', '_') + '.html'
HtmlFilename(m) == Replace(m.name, <<".">>, <<"_">>) \o <<".","h","t","m","l">>

(* ------------------------------------------------------------------ *)
(* State                                                               *)
(* ------------------------------------------------------------------ *)

VARIABLES
    content,    \* ParseSpec: the text of the file handed to parse_file
    parsed,     \* ParseSpec: None before the call, Some(module) after it
    disk,       \* the input tree: a function from relative paths to texts
    pc,         \* the position of generate()
    lua_files,  \* the sorted list the loop runs over
    cur,        \* the 1-based index of the file the loop is at
    modules,    \* self.modules
    errors,     \* the errors caught, in order: the path and the step that raised
    pages,      \* the module pages written: file name -> path of the module
    index,      \* None, or Some(entries of index.html)
    api         \* None, or Some(the files under api/)

vars == <<content, parsed, disk, pc, lua_files, cur, modules, errors, pages,
          index, api>>

genVars == <<disk, pc, lua_files, cur, modules, errors, pages, index, api>>

EmptyMap == [x \in {} |-> <<>>]

\* a generator that is not running, for ParseSpec
GenIdle ==
    /\ disk = EmptyMap
    /\ pc = "idle"
    /\ lua_files = <<>>
    /\ cur = 0
    /\ modules = <<>>
    /\ errors = <<>>
    /\ pages = EmptyMap
    /\ index = None
    /\ api = None

(* ------------------------------------------------------------------ *)
(* ParseSpec: parse_file on one text                                   *)
(* ------------------------------------------------------------------ *)

ParseInit ==
    /\ content \in Contents
    /\ parsed = None
    /\ GenIdle

\* one call of parse_file
ParseStep ==
    /\ pc = "idle"
    /\ parsed = None
    /\ parsed' = Some(ParseFile(ParsePath, content))
    /\ UNCHANGED <<content, genVars>>

ParseNext == ParseStep

ParseSpec == ParseInit /\ [][ParseNext]_vars

(* ------------------------------------------------------------------ *)
(* Spec: one run of generate()                                         *)
(* ------------------------------------------------------------------ *)

Init ==
    /\ content = <<>>
    /\ parsed = None
    /\ disk \in Trees
    /\ pc = "discover"
    /\ lua_files = <<>>
    /\ cur = 0
    /\ modules = <<>>
    /\ errors = <<>>
    /\ pages = EmptyMap
    /\ index = None
    /\ api = None

\* rglob, the filter and the sort
Discover ==
    /\ pc = "discover"
    /\ lua_files' = Discovered(DOMAIN disk)
    /\ cur' = 1
    /\ pc' = "parse"
    /\ UNCHANGED <<content, parsed, disk, modules, errors, pages, index, api>>

\* the except clause: the error is printed and the loop goes on
Caught(step) ==
    /\ errors' = Append(errors, [path |-> lua_files[cur], step |-> step])
    /\ cur' = cur + 1
    /\ pc' = "parse"

\* parse_file returns; a retained module is appended to self.modules
ParseReturns ==
    /\ pc = "parse"
    /\ cur <= Len(lua_files)
    /\ LET module == ParseFile(lua_files[cur], disk[lua_files[cur]])
       IN IF Retained(module)
            THEN /\ modules' = Append(modules, module)
                 /\ pc' = "write"
                 /\ cur' = cur
            ELSE /\ modules' = modules
                 /\ pc' = "parse"
                 /\ cur' = cur + 1
    /\ UNCHANGED <<content, parsed, disk, lua_files, errors, pages, index, api>>

\* parse_file raises (the file cannot be opened or decoded)
ParseRaises ==
    /\ pc = "parse"
    /\ cur <= Len(lua_files)
    /\ Caught("parse")
    /\ UNCHANGED <<content, parsed, disk, lua_files, modules, pages, index, api>>

\* the page of the module just appended is rendered and written
WritePage ==
    /\ pc = "write"
    /\ LET module == modules[Len(modules)]
           name == HtmlFilename(module)
       IN pages' = [f \in DOMAIN pages \cup {name} |->
                      IF f = name THEN module.path ELSE pages[f]]
    /\ cur' = cur + 1
    /\ pc' = "parse"
    /\ UNCHANGED <<content, parsed, disk, lua_files, modules, errors, index, api>>

\* rendering or writing the page raises
WriteRaises ==
    /\ pc = "write"
    /\ Caught("write")
    /\ UNCHANGED <<content, parsed, disk, lua_files, modules, pages, index, api>>

\* after the loop: index.html
GenerateIndex ==
    /\ pc = "parse"
    /\ cur > Len(lua_files)
    /\ index' = Some(HtmlIndex(modules))
    /\ pc' = "api"
    /\ UNCHANGED <<content, parsed, disk, lua_files, cur, modules, errors, pages, api>>

\* generate_api_endpoints
GenerateApiEndpoints ==
    /\ pc = "api"
    /\ api' = Some(ApiEndpoints(modules, DOMAIN disk))
    /\ pc' = "done"
    /\ UNCHANGED <<content, parsed, disk, lua_files, cur, modules, errors, pages, index>>

Next ==
    \/ Discover
    \/ ParseReturns
    \/ ParseRaises
    \/ WritePage
    \/ WriteRaises
    \/ GenerateIndex
    \/ GenerateApiEndpoints

Spec == Init /\ [][Next]_vars


(* ------------------------------------------------------------------ *)
(* Properties of parse_file (ParseSpec)                                *)
(* ------------------------------------------------------------------ *)

\* the module parse_file returned
Mod == parsed[1]

\* the definitions func_pattern matched in the text
Matches == FuncMatches(content, 1)

\* the elements of a sequence
Elems(s) == {s[k] : k \in 1..Len(s)}

\* the number of the line position i of the text is on
LineOf(i) == Cardinality({k \in 1..(i - 1) : content[k] = "\n"}) + 1

\* f is the function record of the matched definition m; a record is told by
\* its name and by the line the match starts on
RecordOf(f, m) == f.name = m.func_name /\ f.line = LineOf(m.start)

\* the matched definition m has its function record among fs
RetainedAs(m, fs) == \E f \in fs : RecordOf(f, m)

\* the comment lines of the block before a matched definition, the marker and
\* the surrounding blanks removed
DocComments(m) ==
    LET raws == Split(m.doc_block, "\n")
        IsComment(r) == ~IsNone(DocLine(r))
        cs == SelectSeq(raws, IsComment)
    IN [k \in 1..Len(cs) |-> DocLine(cs[k])[1]]

IsParamLine(l) == StartsWith(l, <<"@","p","a","r","a","m">>)
IsReturnLine(l) == StartsWith(l, <<"@","r","e","t","u","r","n">>)
IsTagLine(l) == StartsWith(l, <<"@">>)

\* the block has only tag lines that are neither @param nor @return
OnlyUnknownTags(m) ==
    \A l \in Elems(DocComments(m)) :
        IsTagLine(l) /\ ~IsParamLine(l) /\ ~IsReturnLine(l)

\* the block gives a description, a parameter or a returns string
DocYields(m) == Documented(FuncInfo(content, m))

HasChar(s, c) == \E k \in 1..Len(s) : s[k] = c

\* declared local, with neither a dot nor a colon in the identifier
LocalBareName(m) ==
    m.is_local /\ ~HasChar(m.func_name, ".") /\ ~HasChar(m.func_name, ":")

\* an underscore at the very start of the identifier or right after a dot
UnderscoreSegment(name) ==
    \/ name[1] = "_"
    \/ \E k \in 1..(Len(name) - 1) : name[k] = "." /\ name[k + 1] = "_"

\* C1: every function record of the module parse_file returns has a non-empty
\* description, at least one parameter or a non-empty returns string, and a
\* matched definition whose comment block has only unrecognised tag lines is
\* not in the functions list.
C1_DocumentedFunctionsOnly ==
    parsed # None =>
        LET fs == Elems(Mod.functions)
            ms == Elems(Matches)
        IN /\ \A f \in fs :
                 f.description # <<>> \/ Len(f.params) >= 1 \/ f.returns # <<>>
           /\ \A m \in ms : OnlyUnknownTags(m) => ~RetainedAs(m, fs)

\* C1 witness: a public, non-local definition under a block of one unrecognised
\* tag line was matched and parse_file returned no function
C1_Witness ==
    /\ parsed # None
    /\ Mod.functions = <<>>
    /\ \E m \in Elems(Matches) :
          /\ OnlyUnknownTags(m)
          /\ m.func_name = <<"M",".","o","p","e","n">>
          /\ ~m.is_local

\* C2: a matched definition that rule 1 does not exclude and whose comment
\* block yields documentation is left out if and only if its identifier has an
\* underscore at the very start or right after a dot, local or not; foo.bar_baz
\* is kept and M._internal is left out.
C2_UnderscoreRule ==
    parsed # None =>
        LET fs == Elems(Mod.functions)
            ms == Elems(Matches)
        IN \A m \in ms :
              (~LocalBareName(m) /\ DocYields(m)) =>
                  (~RetainedAs(m, fs) <=> UnderscoreSegment(m.func_name))

\* C2 witness: M._internal, not local and documented, was matched and is not
\* in the module
C2_Witness ==
    /\ parsed # None
    /\ \E m \in Elems(Matches) :
          /\ m.func_name = <<"M",".","_","i","n","t","e","r","n","a","l">>
          /\ ~m.is_local
          /\ DocYields(m)
          /\ ~RetainedAs(m, Elems(Mod.functions))

\* C3: a definition declared local whose identifier has neither a dot nor a
\* colon is never in the module, whatever its comment block holds; a local
\* definition with a dot or a colon in its identifier is not left out by this
\* rule: it is kept when documented and not underscore-prefixed.
C3_LocalRule ==
    parsed # None =>
        LET fs == Elems(Mod.functions)
            ms == Elems(Matches)
        IN \A m \in ms :
              /\ LocalBareName(m) => ~RetainedAs(m, fs)
              /\ (m.is_local /\ ~LocalBareName(m) /\ DocYields(m)
                    /\ ~UnderscoreSegment(m.func_name)) => RetainedAs(m, fs)

\* C3 witness: local function helper(x) under a block with a description and
\* a parameter was matched and is not in the module
C3_Witness ==
    /\ parsed # None
    /\ \E m \in Elems(Matches) :
          /\ m.func_name = <<"h","e","l","p","e","r">>
          /\ m.is_local
          /\ Len(FuncInfo(content, m).params) >= 1
          /\ FuncInfo(content, m).description # <<>>
          /\ ~RetainedAs(m, Elems(Mod.functions))

\* the first block comment of the text
Block == BlockMatch(content)[1]

\* the remainder of the line of the first occurrence of the tag, trimmed
OwnLinePayload(block, tag) ==
    LET q == Find(block, tag, 1)
        a == q + Len(tag)
    IN Strip(SubSeq(block, a, LineEnd(block, a) - 1))

HasAllTags ==
    /\ ~IsNone(BlockMatch(content))
    /\ Contains(Block, <<"@","v","e","r","s","i","o","n">>)
    /\ Contains(Block, <<"@","a","u","t","h","o","r">>)
    /\ Contains(Block, <<"@","l","i","c","e","n","s","e">>)

\* C6 (as claimed): for a text whose first block comment has @version, @author
\* and @license tags, version, author and license are the trimmed remainders
\* of the tags' own lines and the fallback on the code is not consulted.
C6_TagsGiveFields ==
    (parsed # None /\ HasAllTags) =>
        /\ Mod.version = Some(OwnLinePayload(Block, <<"@","v","e","r","s","i","o","n">>))
        /\ Mod.author = Some(OwnLinePayload(Block, <<"@","a","u","t","h","o","r">>))
        /\ Mod.license = Some(OwnLinePayload(Block, <<"@","l","i","c","e","n","s","e">>))
        /\ ~FallbackConsulted(content)

IsTriple(l) == StartsWith(l, <<"-","-","-">>)
Cleaned(l) == Strip(From(l, 3))

\* no description comes from the block comment
NoBlockDescription ==
    IsNone(BlockMatch(content)) \/ BlockDescription(Block) = <<>>

\* the cleaned, non-empty '---' lines among lines a..b of ls, joined
TripleText(ls, a, b) ==
    LET Kept(l) == IsTriple(l) /\ Cleaned(l) # <<>>
        ks == SelectSeq(SubSeq(ls, a, b), Kept)
    IN Join([k \in 1..Len(ks) |-> Cleaned(ks[k])], <<" ">>)

\* the least element of a set of line numbers, n if the set is empty
Least(S, n) == IF S = {} THEN n ELSE CHOOSE x \in S : \A y \in S : x <= y

\* the first '---' tag line of ls, or one past the last line
FirstTagLine(ls) ==
    Least({k \in 1..Len(ls) : IsTriple(ls[k]) /\ IsTagLine(Cleaned(ls[k]))},
          Len(ls) + 1)

\* the first line of ls from a on that is no '---' line, or one past the last
FirstOtherLine(ls, a) ==
    Least({k \in a..Len(ls) : ~IsTriple(ls[k])}, Len(ls) + 1)

\* the first '---' line of ls with text before line t, 0 if none
FirstTextLine(ls, t) ==
    Least({k \in 1..(t - 1) : IsTriple(ls[k]) /\ Cleaned(ls[k]) # <<>>}, 0)

Min(a, b) == IF a < b THEN a ELSE b

\* C7 (as claimed): without a block-comment description, the description is
\* that of the run of '---' lines that begins at the very first line of the
\* text and ends at the first tag line or the first line that is no '---'
\* line.
C7_RunFromFirstLine ==
    (parsed # None /\ NoBlockDescription) =>
        LET ls == Split(content, "\n")
            e == Min(FirstTagLine(ls), FirstOtherLine(ls, 1))
        IN Mod.description = TripleText(ls, 1, e - 1)

\* C7 (amended): without a block-comment description, the description is that
\* of the first run of '---' lines with text, wherever it begins: the lines
\* before the first non-empty '---' line are skipped, and the run ends at the
\* first '---' tag line or at the first line after its first text line that
\* is no '---' line.  The description is empty when a '---' tag line comes
\* before any '---' line with text.
C7_FirstRunAnywhere ==
    (parsed # None /\ NoBlockDescription) =>
        LET ls == Split(content, "\n")
            t == FirstTagLine(ls)
            s == FirstTextLine(ls, t)
            e == Min(t, FirstOtherLine(ls, s))
        IN IF s = 0 THEN Mod.description = <<>>
           ELSE Mod.description = TripleText(ls, s, e - 1)

\* C7 witness: the text has no block comment, its first line is code and its
\* description comes from a '---' line further down
C7_Witness ==
    /\ parsed # None
    /\ IsNone(BlockMatch(content))
    /\ Split(content, "\n")[1] = <<"l","o","c","a","l"," ","x"," ","="," ","1">>
    /\ Mod.description = <<"I","n","t","r","o">>

\* C8 (as claimed): the line of every function in the module is the number of
\* the line its function keyword stands on.
C8_LineOfDefinition ==
    parsed # None =>
        \A m \in Elems(Matches) :
            \A f \in Elems(Mod.functions) :
                RecordOf(f, m) => f.line = LineOf(m.def_pos)

\* the last @return line of a block in a one-element sequence, <<>> if the
\* block has none
LastReturnLine(m) ==
    LET hits == SelectSeq(DocComments(m), IsReturnLine)
    IN IF hits = <<>> THEN <<>> ELSE <<hits[Len(hits)]>>

\* the parameters of the @param lines of a block the pattern accepts, in
\* source order
AcceptedParams(m) ==
    LET WellFormed(l) == IsParamLine(l) /\ ParamMatch(l) # <<>>
        ps == SelectSeq(DocComments(m), WellFormed)
    IN [k \in 1..Len(ps) |-> ParamMatch(ps[k])[1]]

\* C9 (as claimed): returns is what follows the tag keyword on the last
\* @return line, trimmed, and nothing else; every @param line the pattern
\* accepts adds one parameter, in source order.
C9_LastReturnPayload ==
    parsed # None =>
        \A m \in Elems(Matches) :
            \A f \in Elems(Mod.functions) :
                RecordOf(f, m) =>
                    LET last == LastReturnLine(m)
                    IN /\ f.returns = (IF last = <<>> THEN <<>>
                                       ELSE Strip(From(last[1], 7)))
                       /\ f.params = AcceptedParams(m)

\* The part of C9 the code does keep: returns is computed from the last
\* @return line alone, and the parameters are those of the accepted @param
\* lines in source order.
LastReturnWins ==
    parsed # None =>
        \A m \in Elems(Matches) :
            \A f \in Elems(Mod.functions) :
                RecordOf(f, m) =>
                    LET last == LastReturnLine(m)
                    IN /\ f.returns = (IF last = <<>> THEN <<>>
                                       ELSE ReturnPayload(last[1]))
                       /\ f.params = AcceptedParams(m)

(* ------------------------------------------------------------------ *)
(* Properties of generate() (Spec)                                     *)
(* ------------------------------------------------------------------ *)

\* the paths whose processing raised at the given step
FailedAt(step) ==
    {errors[k].path : k \in {j \in 1..Len(errors) : errors[j].step = step}}

ModulePaths == {modules[k].path : k \in 1..Len(modules)}

\* parse_file has returned for the k-th file of the list
ParsedFile(k) ==
    /\ (k < cur \/ (k = cur /\ pc = "write"))
    /\ lua_files[k] \notin FailedAt("parse")

\* C4: a module parse_file returned is in the module list if and only if its
\* description is non-empty or it has at least one function, and at no point
\* of the run does the list hold a module with neither.
C4_RetainedModulesOnly ==
    /\ \A k \in 1..Len(modules) :
          modules[k].description # <<>> \/ Len(modules[k].functions) >= 1
    /\ LET listed == ModulePaths
       IN \A k \in 1..Len(lua_files) :
             ParsedFile(k) =>
                 LET text == disk[lua_files[k]]
                 IN (lua_files[k] \in listed) <=>
                        \/ ModuleDescription(text) # <<>>
                        \/ Len(Functions(text, FuncMatches(text, 1))) >= 1

\* C4 witness: the run is over, nothing raised, and of two files parsed one is
\* in the module list, with functions and no description, and one is not
C4_Witness ==
    /\ pc = "done"
    /\ errors = <<>>
    /\ Len(lua_files) = 2
    /\ Len(modules) = 1
    /\ modules[1].description = <<>>

\* the module list of a run over the given paths in which nothing raises
RECURSIVE ModulesOf(_)
ModulesOf(files) ==
    IF files = <<>> THEN <<>>
    ELSE LET m == ParseFile(Head(files), disk[Head(files)])
         IN (IF Retained(m) THEN <<m>> ELSE <<>>) \o ModulesOf(Tail(files))

\* C5 (as claimed): when the run is over, the module list, the index and the
\* manifests are those of a run on the tree without the files whose
\* processing raised.
C5_FailingFileSkipped ==
    pc = "done" =>
        LET present == DOMAIN disk \ (FailedAt("parse") \cup FailedAt("write"))
            expected == ModulesOf(Discovered(present))
        IN /\ modules = expected
           /\ index = Some(HtmlIndex(expected))
           /\ api = Some(ApiEndpoints(expected, present))

\* the entries of the extensions section, parents and children
ExtensionElems(ix) ==
    UNION {{ix.extensions[k].parent} \cup Elems(ix.extensions[k].children) :
             k \in 1..Len(ix.extensions)}

\* the path is under one of the four named prefixes
NamedPrefix(path) ==
    \/ StartsWith(path, <<"t","a","c","/","c","o","r","e","/">>)
    \/ StartsWith(path, <<"t","a","c","/","l","i","b","/">>)
    \/ StartsWith(path, <<"t","a","c","/","c","o","m","m","a","n","d","s","/">>)
    \/ StartsWith(path, <<"t","a","c","/","e","x","t","e","n","s","i","o","n","s","/">>)

\* C10 (as claimed): a module is under 'Other Modules' if and only if its path
\* matches none of the core, library, commands and extensions prefixes, and no
\* module is both under a named category and under 'Other Modules'.
C10_OtherIffNoPrefix ==
    index # None =>
        LET ix == index[1]
            named == Elems(ix.core) \cup Elems(ix.lib)
                       \cup Elems(ix.commands) \cup ExtensionElems(ix)
        IN \A p \in ModulePaths :
              /\ (p \in Elems(ix.other)) <=> ~NamedPrefix(p)
              /\ ~(p \in Elems(ix.other) /\ p \in named)

(* ------------------------------------------------------------------ *)
(* Properties of the index page and the manifests (Spec)               *)
(* ------------------------------------------------------------------ *)

\* the path has the form tac/extensions/<x>.lua
TopLevelExtension(path) ==
    LET parts == Split(path, "/")
    IN Len(parts) = 3 /\ parts[1] = <<"t","a","c">> /\ parts[2] = <<"e","x","t","e","n","s","i","o","n","s">>

\* the path has the form tac/extensions/<x>/<y>.lua
ExtensionSubmodule(path) ==
    LET parts == Split(path, "/")
    IN Len(parts) = 4 /\ parts[1] = <<"t","a","c">> /\ parts[2] = <<"e","x","t","e","n","s","i","o","n","s">>

\* the path tac/extensions/<x>.lua of the extension a submodule belongs to
ParentPath(path) ==
    LET parts == Split(path, "/")
    IN <<"t","a","c","/","e","x","t","e","n","s","i","o","n","s","/">> \o parts[3] \o <<".","l","u","a">>

\* the paths of a sequence are in strictly ascending order of module name
AscendingNames(paths) ==
    \A k \in 1..Len(paths) : \A l \in (k + 1)..Len(paths) :
        StrLess(ModuleName(paths[k]), ModuleName(paths[l]))

\* C11: on the index page every module at tac/extensions/<x>.lua is a
\* top-level extension entry; a module at tac/extensions/<x>/<y>.lua is never
\* a top-level entry nor an entry of another section, and is nested under no
\* entry but <x>; the top-level entries are in ascending name order and so
\* are the children of each entry.
C11_ExtensionHierarchy ==
    index # None =>
        LET ix == index[1]
            exts == ix.extensions
            tops == [k \in 1..Len(exts) |-> exts[k].parent]
            flat == Elems(ix.core) \cup Elems(ix.lib)
                      \cup Elems(ix.commands) \cup Elems(ix.other)
        IN /\ \A p \in ModulePaths :
                /\ TopLevelExtension(p) => p \in Elems(tops)
                /\ ExtensionSubmodule(p) =>
                      /\ p \notin Elems(tops)
                      /\ p \notin flat
                      /\ \A k \in 1..Len(exts) :
                            p \in Elems(exts[k].children) =>
                                exts[k].parent = ParentPath(p)
           /\ AscendingNames(tops)
           /\ \A k \in 1..Len(exts) : AscendingNames(exts[k].children)

\* C11 witness: the index shows shop-x after shop, and under shop its
\* submodules ui and ui-x in this order, the reverse of the order in which
\* their files were processed
C11_Witness ==
    /\ index # None
    /\ \E k \in 1..Len(index[1].extensions) :
          /\ index[1].extensions[k].parent = <<"t","a","c","/","e","x","t","e","n","s","i","o","n","s","/","s","h","o","p",".","l","u","a">>
          /\ index[1].extensions[k].children =
                << <<"t","a","c","/","e","x","t","e","n","s","i","o","n","s","/","s","h","o","p","/","u","i",".","l","u","a">>,
                   <<"t","a","c","/","e","x","t","e","n","s","i","o","n","s","/","s","h","o","p","/","u","i","-","x",".","l","u","a">> >>
    /\ \E j \in 1..(Len(modules) - 1) :
          /\ modules[j].path = <<"t","a","c","/","e","x","t","e","n","s","i","o","n","s","/","s","h","o","p","/","u","i","-","x",".","l","u","a">>
          /\ modules[j + 1].path = <<"t","a","c","/","e","x","t","e","n","s","i","o","n","s","/","s","h","o","p","/","u","i",".","l","u","a">>

\* the path is that of a .lua file directly in tac/commands
CommandFile(path) ==
    LET parts == Split(path, "/")
    IN /\ Len(parts) = 3 /\ parts[1] = <<"t","a","c">> /\ parts[2] = <<"c","o","m","m","a","n","d","s">>
       /\ Len(parts[3]) > 4
       /\ SubSeq(parts[3], Len(parts[3]) - 3, Len(parts[3])) = <<".","l","u","a">>

\* the file name of a command file without its .lua ending
CommandName(path) ==
    LET file == Split(path, "/")[3]
    IN SubSeq(file, 1, Len(file) - 4)

\* the module of the list with the given path
ModuleAt(path) == modules[CHOOSE k \in 1..Len(modules) : modules[k].path = path]

\* C12: after generate_api_endpoints every .lua file directly in tac/commands
\* has an entry under commands in versions.json: the entry of its parsed
\* module (its version and path) when the file is in the module list,
\* otherwise a placeholder with version "0.0.0".
C12_CommandFilesListed ==
    api # None =>
        LET commands == api[1].versions.commands
            listed == ModulePaths
        IN \A p \in DOMAIN disk :
              CommandFile(p) =>
                  /\ CommandName(p) \in DOMAIN commands
                  /\ commands[CommandName(p)] =
                        IF p \in listed
                          THEN [version |-> ModuleAt(p).version, path |-> p]
                          ELSE [version |-> Some(<<"0",".","0",".","0">>), path |-> p]

\* C12 witness: of two command files one is in the module list and has the
\* entry of its module, the other is not and has a placeholder
C12_Witness ==
    /\ api # None
    /\ errors = <<>>
    /\ DOMAIN disk = {<<"t","a","c","/","c","o","m","m","a","n","d","s","/","c","a","r","d",".","l","u","a">>, <<"t","a","c","/","c","o","m","m","a","n","d","s","/","c","a","r","d",".","v","2",".","l","u","a">>}
    /\ ModulePaths = {<<"t","a","c","/","c","o","m","m","a","n","d","s","/","c","a","r","d",".","v","2",".","l","u","a">>}
    /\ api[1].versions.commands[<<"c","a","r","d",".","v","2">>].version = Some(<<"1",".","2">>)
    /\ api[1].versions.commands[<<"c","a","r","d">>].version = Some(<<"0",".","0",".","0">>)

(* ------------------------------------------------------------------ *)
(* Properties of the run of generate() (Spec)                           *)
(* ------------------------------------------------------------------ *)

\* some directory of the path is named data, test or .git, or the path lies
\* under the top-level directory lib
ExcludedDirectory(path) ==
    LET parts == Split(path, "/")
        dirs == SubSeq(parts, 1, Len(parts) - 1)
    IN \/ \E k \in 1..Len(dirs) : dirs[k] \in {<<"d","a","t","a">>, <<"t","e","s","t">>, <<".","g","i","t">>}
       \/ (dirs # <<>> /\ dirs[1] = <<"l","i","b">>)

\* C13 (as claimed): generate() leaves a file of the tree out of the files it
\* processes exactly when a directory component of its relative path is
\* named data, test or .git or it lies under the top-level lib/; files under
\* metadata/, latest/ and tac/lib/ are processed.
C13_ExcludedByDirectoryName ==
    pc # "discover" =>
        LET processed == Elems(lua_files)
        IN \A p \in DOMAIN disk : (p \notin processed) <=> ExcludedDirectory(p)

\* path a comes before path b: at the first directory or file name where
\* they differ a has the smaller one, or the names of a are the first names
\* of b
PathBefore(a, b) ==
    LET pa == Split(a, "/")
        pb == Split(b, "/")
    IN \E k \in 1..Len(pb) :
          /\ k <= Len(pa) + 1
          /\ \A j \in 1..(k - 1) : pa[j] = pb[j]
          /\ (k = Len(pa) + 1 \/ StrLess(pa[k], pb[k]))

\* the paths of a sequence are in strictly ascending path order
AscendingPaths(paths) ==
    \A k \in 1..Len(paths) : \A l \in (k + 1)..Len(paths) :
        PathBefore(paths[k], paths[l])

\* the position in the list of files of the file the k-th module came from
FileOf(k) == CHOOSE j \in 1..Len(lua_files) : lua_files[j] = modules[k].path

\* the list the loop starts on is in ascending path order; the modules come
\* from files handled so far, in the order of the list; the index and the
\* manifests exist only once every file has been handled and are those of
\* the module list
OrderedRun ==
    /\ (pc = "parse" /\ cur = 1) => AscendingPaths(lua_files)
    /\ \A k \in 1..Len(modules) :
          /\ \E j \in 1..Len(lua_files) : lua_files[j] = modules[k].path
          /\ FileOf(k) <= cur
          /\ k > 1 => FileOf(k - 1) < FileOf(k)
    /\ index # None =>
          /\ cur = Len(lua_files) + 1
          /\ index = Some(HtmlIndex(modules))
    /\ api # None =>
          /\ index # None
          /\ api = Some(ApiEndpoints(modules, DOMAIN disk))

\* a step handles at most one file and never goes back, leaves the list of
\* files alone once the loop has started, changes the module list only by
\* appending one module, and leaves it alone once the index is written
AppendOnly ==
    /\ cur' \in {cur, cur + 1}
    /\ pc # "discover" => lua_files' = lua_files
    /\ \/ modules' = modules
       \/ /\ index = None
          /\ Len(modules') = Len(modules) + 1
          /\ SubSeq(modules', 1, Len(modules)) = modules

\* C14: generate() handles the files one at a time in ascending path order,
\* the module list only grows by appending, and the index and the manifests
\* are generated after the last file from the complete list, which is in
\* path order.
C14_OrderedAppendOnly == [](OrderedRun) /\ [][AppendOnly]_vars

\* C14 witness: the run is over and the module list holds three modules in
\* path order, a submodule before the top-level files beside its directory
C14_Witness ==
    /\ pc = "done"
    /\ [k \in 1..Len(modules) |-> modules[k].path] =
          << <<"t","a","c","/","e","x","t","e","n","s","i","o","n","s","/","s","h","o","p","/","u","i",".","l","u","a">>, <<"t","a","c","/","e","x","t","e","n","s","i","o","n","s","/","s","h","o","p","-","x",".","l","u","a">>,
             <<"t","a","c","/","e","x","t","e","n","s","i","o","n","s","/","s","h","o","p",".","l","u","a">> >>
    /\ index # None
    /\ api # None

\* the entries of one category of versions.json
EntriesOf(category) == {category[n] : n \in DOMAIN category}

\* C17 (as claimed): every entry under core, lib, commands and extensions in
\* versions.json has a version that is a string; a module without a version
\* gets "0.0.0", never a null version.
C17_VersionsAreStrings ==
    api # None =>
        LET v == api[1].versions
        IN \A e \in EntriesOf(v.core) \cup EntriesOf(v.lib)
                      \cup EntriesOf(v.commands) \cup EntriesOf(v.extensions) :
              /\ e.version # None
              /\ (e.path \in ModulePaths /\ ModuleAt(e.path).version = None)
                    => e.version = Some(<<"0",".","0",".","0">>)

\* the paths the index page links to, in any section
IndexEntries(ix) ==
    Elems(ix.core) \cup Elems(ix.lib) \cup Elems(ix.commands)
      \cup Elems(ix.other) \cup ExtensionElems(ix)

\* C18 (as claimed): every module in the list passed to generate_html_index
\* has at least one entry in the index page, also an extension submodule
\* whose top-level extension file is not in the list.
C18_EveryModuleIndexed ==
    index # None => \A p \in ModulePaths : p \in IndexEntries(index[1])

\* C19 (as claimed): two modules of the list with different paths have
\* different HTML file names, so when the run is over every module that was
\* written still has its own page.
C19_DistinctPages ==
    /\ \A j \in 1..Len(modules) : \A k \in 1..Len(modules) :
          modules[j].path # modules[k].path =>
              HtmlFilename(modules[j]) # HtmlFilename(modules[k])
    /\ pc = "done" =>
          \A p \in ModulePaths \ FailedAt("write") :
              \E f \in DOMAIN pages : pages[f] = p

(* ------------------------------------------------------------------ *)
(* Properties of the descriptions parse_file computes (ParseSpec)       *)
(* ------------------------------------------------------------------ *)

\* the comment lines of a block that are neither tag lines nor blank, joined
\* with single spaces
TextOfBlock(m) ==
    LET IsText(l) == l # <<>> /\ ~IsTagLine(l)
    IN Join(SelectSeq(DocComments(m), IsText), <<" ">>)

\* C15 (as claimed): the description of a function is the comment lines of
\* its block that are neither tag lines nor blank, in order, joined with
\* single spaces; blank comment lines contribute nothing.
C15_DescriptionSkipsBlankLines ==
    parsed # None =>
        \A m \in Elems(Matches) :
            \A f \in Elems(Mod.functions) :
                RecordOf(f, m) => f.description = TextOfBlock(m)

\* the lines of the block comment, trimmed
BlockLines ==
    LET raws == Split(Block, "\n")
    IN [k \in 1..Len(raws) |-> Strip(raws[k])]

\* the non-empty lines among lines a..b of ls, joined with single spaces
NonEmptyText(ls, a, b) ==
    LET NonEmpty(l) == l # <<>>
    IN Join(SelectSeq(SubSeq(ls, a, b), NonEmpty), <<" ">>)

\* the first line of ls from a on that is a tag line, or one past the last
FirstTagFrom(ls, a) ==
    Least({k \in a..Len(ls) : IsTagLine(ls[k])}, Len(ls) + 1)

\* the first line of ls that is neither empty nor a tag line, 0 if none
TitleLine(ls) ==
    Least({k \in 1..Len(ls) : ls[k] # <<>> /\ ~IsTagLine(ls[k])}, 0)

\* the first non-empty line of ls, 0 if none
FirstNonEmptyLine(ls) == Least({k \in 1..Len(ls) : ls[k] # <<>>}, 0)

\* C16 (as claimed): the block-comment description is the non-empty lines
\* after the title line (the first non-empty line that is no tag line) up to
\* the first tag line, joined by spaces, and it is empty if the first
\* non-empty line of the block comment is a tag line.
C16_TagFirstGivesNoDescription ==
    (parsed # None /\ ~IsNone(BlockMatch(content))) =>
        LET ls == BlockLines
            first == FirstNonEmptyLine(ls)
            title == TitleLine(ls)
        IN IF first # 0 /\ IsTagLine(ls[first])
             THEN BlockDescription(Block) = <<>>
           ELSE IF title = 0 THEN BlockDescription(Block) = <<>>
           ELSE BlockDescription(Block) =
                  NonEmptyText(ls, title + 1, FirstTagFrom(ls, title + 1) - 1)

\* The part of C16 the code does keep: the description is the non-empty lines
\* between the title line and the first tag line after it, also when tag
\* lines come before the title line.
BlockDescriptionAfterTitle ==
    (parsed # None /\ ~IsNone(BlockMatch(content))) =>
        LET ls == BlockLines
            title == TitleLine(ls)
        IN IF title = 0 THEN BlockDescription(Block) = <<>>
           ELSE BlockDescription(Block) =
                  NonEmptyText(ls, title + 1, FirstTagFrom(ls, title + 1) - 1)
====
